---- MODULE Spec2Model ----
(***************************************************************************)
(* Model of the emergency operator's task orchestration and peer-dispatch  *)
(* engine of pjmagee/demo-a2a-multi-agent:                                 *)
(*   emergency_operator_agent/task_orchestrator.py  (EmergencyTask,        *)
(*       EmergencyTaskOrchestrator)                                        *)
(*   emergency_operator_agent/task_executor.py      (TaskOrchestratedExecutor) *)
(*   emergency_operator_agent/app.py                (startup pre-fetch)    *)
(*   shared/peer_tools.py                           (registry address load) *)
(*                                                                         *)
(* Processes.  Flows run TaskOrchestratedExecutor.execute for one request  *)
(* each (task id = the flow's number).  Callers call                       *)
(* _fetch_available_agents with no event queue, as app.py's startup_event  *)
(* does.  All of them share the class-level agent cache and the clock.     *)
(* Python's asyncio runs one coroutine at a time and switches only at an   *)
(* await, so an action is the code between two awaits.  Awaits that only   *)
(* enqueue an event on the flow's own queue are folded into the action     *)
(* that issues them: they touch no shared state.                           *)
(*                                                                         *)
(* Optional values: None is the empty sequence, Some(x) is <<x>>.          *)
(***************************************************************************)
EXTENDS Integers, Sequences, FiniteSets, TLC

(* ------------------------------ bounds --------------------------------- *)
\* calls the plain get_catalog caller may make
MaxCalls == 1
\* addresses the registry can list
NumAddresses == 2
\* longest name list the matching collaborator returns
MaxSelected == 2
\* the clock advances in ticks of TickSeconds up to MaxTime
TickSeconds == 30
MaxTime == 60
\* longest name list of an answer given to the matcher on its own
MaxAnswerLen == 3
\* longest address string a registry client sends
MaxAddrLen == 3
\* envelopes an agent streams in answer to one chat message
MaxEnvelopes == 2
\* steps added to, and advances made on, an EmergencyTask used on its own
MaxSteps == 3
MaxAdvances == 4
\* longest path of an agent's base URL
MaxPathLen == 2
\* status updates the tools of one agent run send
MaxToolUpdates == 2

(* --------------------------- program constants ------------------------- *)
AGENT_CACHE_TTL_SECONDS == 60

None == <<>>
Some(x) == <<x>>

\* one executor request, and one plain get_catalog caller beside it
Flows == {1}
Callers == {2}
Procs == Flows \cup Callers
Addresses == 1..NumAddresses
\* two agent processes that use the shared registry client
Clients == {1, 2}
\* two requests handled by one OperatorAgentExecutor at the same time
Requests == {1, 2}
\* the operator's own BASE_URL, which the registry may list as well
SelfAddress == NumAddresses + 1

\* TaskState values used by the orchestrator
submitted == "submitted"
working == "working"
completed == "completed"
failed == "failed"

VARIABLES
    now,            \* datetime.now(UTC), in seconds
    _class_agent_cache,          \* EmergencyTaskOrchestrator._class_agent_cache
    _class_cache_timestamp,        \* EmergencyTaskOrchestrator._class_cache_timestamp
    active_tasks,   \* keys of EmergencyTaskOrchestrator.active_tasks
    pc,             \* position of each process
    task,           \* the EmergencyTask of each flow
    events,         \* events enqueued on each flow's EventQueue, in order
    addresses,      \* _fetch_available_agents: local `addresses`
    idx,            \* _fetch_available_agents: loop position in `addresses`
    agents,         \* _fetch_available_agents: local `agents` dict
    available_agents,      \* value returned by _fetch_available_agents
    stepIdx,        \* execute_task: loop position in task.steps
    dispatchCalls,  \* history: peer calls made by _dispatch_to_agent
    ncalls,         \* calls made so far by each plain caller
    gen,            \* history: fetch generation of the process's fetch
    nextGen,        \* history: number of the next fetch generation
    snap,           \* history: cache and timestamp when the fetch began
    disconnected,   \* environment: the caller's stream of the flow has gone
    attempts,       \* history: card resolutions tried by the process's fetch
    registry_reply, \* history: how the registry answered the process's fetch
    calls,          \* history: collaborator calls made for each flow, counted
    validation,     \* create_task_plan: what the validation call answered
    \* _match_agents_to_emergency on its own
    mCatalog,       \* available_agents passed to the matcher
    mAnswer,        \* what the matching collaborator answered to the last call
    mResult,        \* matched_agents returned by the last call
    \* a2a_registry
    clientAddresses,\* the raw address strings the registry's clients send
    _agents,        \* RegistryStore._agents, in insertion order
    regRequest,     \* the request the registry handled last
    regResponse,    \* the response it gave
    directory,      \* history: what is registered, kept by the claim's rule
    normalForm,     \* history: each client address normalized by that rule
    \* webapp_backend POST /api/chat
    chatRequest,    \* the request: its Accept header and payload.agent_name
    chatPc,         \* position of the request's handling
    chatListed,     \* the names client.list_agents() returned
    chatState,      \* _stream_agent_reply: the _StreamState
    chatFrames,     \* the frames of the response stream so far
    chatSent,       \* history: messages sent by send_message_streaming
    chatStreamed,   \* history: the envelopes the agent streamed
    chatDisconnected, \* request.is_disconnected() has answered true
    \* an EmergencyTask used on its own
    et,             \* the EmergencyTask
    etOp,           \* the method called last
    etRet,          \* what it returned: None, Some(value) or the pair
    \* shared/registry_client.py, one agent process per client
    agent_addresses,  \* the base URL each agent passes to both helpers
    clientCalled,   \* the helper each agent called last
    clientReturned, \* what that helper returned
    \* OperatorAgentExecutor with its one EmergencyOperatorAgent
    _status_callback, \* EmergencyOperatorAgent._status_callback: the request
                    \* whose callback is installed, or None
    invokePc,       \* position of each request's execute
    toolUpdates,    \* status updates sent so far by the tools of each run
    eventQueues,    \* status updates enqueued on each request's EventQueue,
                    \* each with the request whose run produced it
    droppedUpdates  \* history: tool status updates no callback took

orchVars == <<now, _class_agent_cache, _class_cache_timestamp, active_tasks, pc, task, events, addresses,
          idx, agents, available_agents, stepIdx, dispatchCalls, ncalls, gen,
          nextGen, snap, disconnected, attempts, registry_reply, calls,
          validation>>
matchVars == <<mCatalog, mAnswer, mResult>>
\* what the orchestrator's actions leave alone
registryVars == <<clientAddresses, _agents, regRequest, regResponse, directory,
                  normalForm>>
chatVars == <<chatRequest, chatPc, chatListed, chatState, chatFrames, chatSent,
              chatStreamed, chatDisconnected>>
taskVars == <<et, etOp, etRet>>
clientVars == <<agent_addresses, clientCalled, clientReturned>>
invokeVars == <<_status_callback, invokePc, toolUpdates, eventQueues,
                droppedUpdates>>
otherVars == <<matchVars, registryVars, chatVars, taskVars, clientVars,
               invokeVars>>
\* what the actions of each of the other components leave alone
notMatch == <<orchVars, registryVars, chatVars, taskVars, clientVars, invokeVars>>
notRegistry == <<orchVars, matchVars, chatVars, taskVars, clientVars, invokeVars>>
notChat == <<orchVars, matchVars, registryVars, taskVars, clientVars, invokeVars>>
notTask == <<orchVars, matchVars, registryVars, chatVars, clientVars, invokeVars>>
notClient == <<orchVars, matchVars, chatVars, taskVars, invokeVars>>
notInvoke == <<orchVars, matchVars, registryVars, chatVars, taskVars, clientVars>>
vars == <<orchVars, otherVars>>

(* ------------------------------ helpers -------------------------------- *)
SetMax(S) == CHOOSE x \in S : \A y \in S : y <= x

\* the members of the set of numbers S as a list in ascending order
RECURSIVE SortedList(_)
SortedList(S) ==
    IF S = {} THEN <<>>
    ELSE Append(SortedList(S \ {SetMax(S)}), SetMax(S))

\* every list of length at most n over S
RECURSIVE SeqsUpTo(_, _)
SeqsUpTo(S, n) ==
    IF n = 0 THEN {<<>>}
    ELSE LET shorter == SeqsUpTo(S, n - 1)
         IN  shorter \cup {Append(l, a) : l \in shorter, a \in S}

\* the display name of the card served at an address
CardName(a) == IF a % 2 = 1 THEN "Fire" ELSE "Police"

\* agents[agent_address] = agent_card on an insertion-ordered dict
DictSet(d, a, card) ==
    IF \E i \in DOMAIN d : d[i].address = a
    THEN [i \in DOMAIN d |-> IF d[i].address = a THEN card ELSE d[i]]
    ELSE Append(d, card)

(* -------------------------- Peer Directory Cache ----------------------- *)
\* variant: a cache exactly TTL seconds old still counts as valid
_is_cache_valid_inclusive ==
    /\ _class_agent_cache # None
    /\ _class_cache_timestamp # None
    /\ now - _class_cache_timestamp[1] <= AGENT_CACHE_TTL_SECONDS

\* lines 197-214
_is_cache_valid ==
    /\ _class_agent_cache # None
    /\ _class_cache_timestamp # None
    /\ now - _class_cache_timestamp[1] < AGENT_CACHE_TTL_SECONDS

\* variant: an empty result is cached too
ShouldCacheAlways(ags) == TRUE

\* `if agents:` - only a non-empty result is cached
ShouldCache(ags) == ags # <<>>

\* variant: the new cards are merged into the cached dict in place
CacheMergedInPlace(old, ags) ==
    IF old = None THEN Some(ags)
    ELSE Some(SelectSeq(old[1],
                        LAMBDA e : \A i \in DOMAIN ags :
                                       ags[i].address # e.address) \o ags)

\* the value assigned to _class_agent_cache on a store
CacheAfterStore(old, ags) == Some(ags)

\* where a process continues when _fetch_available_agents returns
AfterFetch(p) == IF p \in Flows THEN "found" ELSE "idle"

(* ----------------------------- Progress Emitter ----------------------- *)
\* _send_message: a TaskStatusUpdateEvent in state working
_send_message(text, final) ==
    [src |-> "orchestrator", state |-> working, text |-> text, final |-> final]

\* _send_status_update of the executor
_send_status_update(state, text, final) ==
    [src |-> "executor", state |-> state, text |-> text, final |-> final]

\* variant: the queue hands the newest events out first
enqueue_event_newest_first(p, es) ==
    events' = IF p \in Flows THEN [events EXCEPT ![p] = es \o @] ELSE events

\* enqueue the events es, in order, on the queue of flow p; a caller that
\* passed no event queue enqueues nothing
enqueue_event(p, es) ==
    events' = IF p \in Flows THEN [events EXCEPT ![p] = @ \o es] ELSE events

(* ------------------------------- Init ---------------------------------- *)
InitOrchestrator ==
    /\ now = 0
    /\ _class_agent_cache = None
    /\ _class_cache_timestamp = None
    /\ active_tasks = {}
    /\ pc = [p \in Procs |-> IF p \in Flows THEN "start" ELSE "idle"]
    /\ task = [p \in Flows |-> None]
    /\ events = [p \in Flows |-> <<>>]
    /\ addresses = [p \in Procs |-> <<>>]
    /\ idx = [p \in Procs |-> 0]
    /\ agents = [p \in Procs |-> <<>>]
    /\ available_agents = [p \in Procs |-> None]
    /\ stepIdx = [p \in Flows |-> 0]
    /\ dispatchCalls = [p \in Flows |-> <<>>]
    /\ ncalls = [p \in Callers |-> 0]
    /\ gen = [p \in Procs |-> 0]
    /\ nextGen = 1
    /\ snap = [p \in Procs |-> None]
    /\ disconnected = [p \in Flows |-> FALSE]
    /\ attempts = [p \in Procs |-> <<>>]
    /\ registry_reply = [p \in Procs |-> "none"]
    /\ calls = [p \in Flows |-> [validate |-> 0, catalog |-> 0, match |-> 0]]
    /\ validation = [p \in Flows |-> "none"]

\* the matcher has not been called
NoMatchCall == mAnswer = None /\ mResult = <<>>

\* RegistryStore.__new__: an empty store that has handled nothing
EmptyRegistry ==
    /\ _agents = <<>>
    /\ regRequest = [op |-> "none", address |-> <<>>]
    /\ regResponse = [op |-> "none", status |-> 0, body |-> <<>>]
    /\ directory = {}

\* no method of the lone EmergencyTask has been called
NoTaskOps ==
    /\ et = [steps |-> <<>>, current_step |-> 0, state |-> "submitted"]
    /\ etOp = "none"
    /\ etRet = None

\* no agent has called a helper of registry_client.py
NoClientCalls ==
    /\ clientCalled = [c \in Clients |-> "none"]
    /\ clientReturned = [c \in Clients |-> None]

\* agent.py lines 66-70: a new agent has no callback installed; no request
\* has reached the executor
NoInvocations ==
    /\ _status_callback = None
    /\ invokePc = [r \in Requests |-> "start"]
    /\ toolUpdates = [r \in Requests |-> 0]
    /\ eventQueues = [r \in Requests |-> <<>>]
    /\ droppedUpdates = <<>>

\* no chat request has been handled
NoChat ==
    /\ chatPc = "request"
    /\ chatListed = None
    /\ chatState = [started |-> FALSE, message_id |-> None, accumulated |-> <<>>]
    /\ chatFrames = <<>>
    /\ chatSent = <<>>
    /\ chatStreamed = <<>>
    /\ chatDisconnected = FALSE

Init ==
    /\ InitOrchestrator
    /\ mCatalog = <<>> /\ NoMatchCall
    /\ clientAddresses = <<>> /\ normalForm = <<>> /\ EmptyRegistry
    /\ chatRequest = None /\ NoChat
    /\ NoTaskOps
    /\ agent_addresses = <<>> /\ NoClientCalls
    /\ NoInvocations

(* ------------------------------ the clock ------------------------------ *)
Tick ==
    /\ now + TickSeconds <= MaxTime
    /\ now' = now + TickSeconds
    /\ UNCHANGED <<otherVars, calls, validation, _class_agent_cache, _class_cache_timestamp, active_tasks, pc, task, events, addresses,
                   idx, agents, available_agents, stepIdx, dispatchCalls, ncalls,
                   gen, nextGen, snap, disconnected, attempts, registry_reply>>

(* ------------------- app.py startup_event: pre-fetch ------------------- *)
startup_event(c) ==
    /\ c \in Callers
    /\ pc[c] = "idle"
    /\ ncalls[c] < MaxCalls
    /\ ncalls' = [ncalls EXCEPT ![c] = @ + 1]
    /\ pc' = [pc EXCEPT ![c] = "fetch"]
    /\ available_agents' = [available_agents EXCEPT ![c] = None]
    /\ snap' = [snap EXCEPT ![c] = None]
    /\ attempts' = [attempts EXCEPT ![c] = <<>>]
    /\ registry_reply' = [registry_reply EXCEPT ![c] = "none"]
    /\ UNCHANGED <<otherVars, calls, validation, now, disconnected, _class_agent_cache, _class_cache_timestamp, active_tasks, task, events, addresses,
                   idx, agents, stepIdx, dispatchCalls, gen, nextGen>>

(* ---------------------- _fetch_available_agents ------------------------ *)
\* lines 233-251: return the cache while it is valid, else start a fetch
_fetch_available_agents(p) ==
    /\ pc[p] = "fetch"
    /\ IF _is_cache_valid
       THEN /\ available_agents' = [available_agents EXCEPT ![p] = Some(_class_agent_cache[1])]
            /\ pc' = [pc EXCEPT ![p] = AfterFetch(p)]
            /\ registry_reply' = [registry_reply EXCEPT ![p] = "cached"]
            /\ UNCHANGED <<agents, gen, nextGen, snap>>
       ELSE /\ agents' = [agents EXCEPT ![p] = <<>>]
            /\ registry_reply' = [registry_reply EXCEPT ![p] = "none"]
            /\ gen' = [gen EXCEPT ![p] = nextGen]
            /\ nextGen' = nextGen + 1
            /\ snap' = [snap EXCEPT ![p] = Some(<<_class_agent_cache, _class_cache_timestamp>>)]
            /\ pc' = [pc EXCEPT ![p] = "load"]
            /\ UNCHANGED available_agents
    /\ attempts' = [attempts EXCEPT ![p] = <<>>]
    /\ IF p \in Flows
       THEN /\ calls' = [calls EXCEPT ![p].catalog = @ + 1]
            /\ validation' = [validation EXCEPT ![p] = "none"]
       ELSE UNCHANGED <<calls, validation>>
    /\ UNCHANGED <<otherVars, now, disconnected, _class_agent_cache, _class_cache_timestamp, active_tasks, task, events, addresses,
                   idx, stepIdx, dispatchCalls, ncalls>>

\* peer_tools.py lines 67-89: drop the operator's own address
_filter_self_address(addrs) == SelectSeq(addrs, LAMBDA a : a # SelfAddress)

\* peer_tools.py lines 108-143: the addresses the registry lists, without
\* the operator's own; [] when the call fails in any way
RegistryAddresses(reply, registered) ==
    IF reply = "unreachable" THEN <<>>
    ELSE _filter_self_address(SortedList(registered))

\* variant: an address whose card could not be resolved stays in the result
AgentsAfterResolveKeepFailed(ags, a, card, ok) == DictSet(ags, a, card)

\* lines 285-301: agents[agent_address] = agent_card, or nothing when
\* resolving the card raised
AgentsAfterResolve(ags, a, card, ok) == IF ok THEN DictSet(ags, a, card) ELSE ags

\* lines 251-271: load_peer_addresses_from_registry returns the registered
\* addresses, or [] when the registry cannot be reached
load_peer_addresses_from_registry(p) ==
    /\ pc[p] = "load"
    /\ \E reply \in {"unreachable", "listed"},
          registered \in SUBSET (Addresses \cup {SelfAddress}) :
        LET addrs == RegistryAddresses(reply, registered)
        IN  /\ registry_reply' = [registry_reply EXCEPT ![p] = reply]
            /\ IF addrs = <<>>
               THEN /\ available_agents' = [available_agents EXCEPT ![p] = Some(agents[p])]
                    /\ pc' = [pc EXCEPT ![p] = AfterFetch(p)]
                    /\ gen' = [gen EXCEPT ![p] = 0]
                    /\ UNCHANGED <<addresses, idx, events>>
               ELSE /\ addresses' = [addresses EXCEPT ![p] = addrs]
                    /\ enqueue_event(p, <<_send_message(<<"Discovering">>, FALSE)>>)
                    /\ idx' = [idx EXCEPT ![p] = 1]
                    /\ pc' = [pc EXCEPT ![p] = "resolve"]
                    /\ UNCHANGED <<available_agents, gen>>
    /\ UNCHANGED <<otherVars, calls, validation, now, disconnected, attempts, _class_agent_cache, _class_cache_timestamp, active_tasks, task, agents, stepIdx,
                   dispatchCalls, ncalls, nextGen, snap>>

\* lines 274-301: resolve the card of addresses[idx]; a failure drops it
get_agent_card(p) ==
    /\ pc[p] = "resolve"
    /\ LET a == addresses[p][idx[p]]
           card == [address |-> a, name |-> CardName(a), gen |-> gen[p]]
       IN  \E ok \in BOOLEAN :
             /\ agents' = [agents EXCEPT ![p] = AgentsAfterResolve(@, a, card, ok)]
             /\ attempts' = [attempts EXCEPT ![p] =
                                Append(@, [address |-> a, ok |-> ok])]
    /\ enqueue_event(p, IF idx[p] % 2 = 1
               THEN <<_send_message(<<"Checking service">>, FALSE)>>
               ELSE <<>>)
    /\ idx' = [idx EXCEPT ![p] = @ + 1]
    /\ pc' = [pc EXCEPT ![p] =
                 IF idx[p] = Len(addresses[p]) THEN "store" ELSE "resolve"]
    /\ UNCHANGED <<otherVars, calls, validation, now, disconnected, registry_reply, _class_agent_cache, _class_cache_timestamp, active_tasks, task, addresses,
                   available_agents, stepIdx, dispatchCalls, ncalls, gen, nextGen,
                   snap>>

\* lines 303-318: cache a non-empty result and return the result
StoreCache(p) ==
    /\ pc[p] = "store"
    /\ IF ShouldCache(agents[p])
       THEN /\ _class_agent_cache' = CacheAfterStore(_class_agent_cache, agents[p])
            /\ _class_cache_timestamp' = Some(now)
       ELSE UNCHANGED <<_class_agent_cache, _class_cache_timestamp>>
    /\ available_agents' = [available_agents EXCEPT ![p] = Some(agents[p])]
    /\ addresses' = [addresses EXCEPT ![p] = <<>>]
    /\ idx' = [idx EXCEPT ![p] = 0]
    /\ agents' = [agents EXCEPT ![p] = <<>>]
    /\ gen' = [gen EXCEPT ![p] = 0]
    /\ pc' = [pc EXCEPT ![p] = AfterFetch(p)]
    /\ UNCHANGED <<otherVars, calls, validation, now, disconnected, attempts, registry_reply, active_tasks, task, events, stepIdx, dispatchCalls,
                   ncalls, nextGen, snap>>

(* ------------------------------ EmergencyTask -------------------------- *)
\* variant: the task is built with the default state whatever is passed
EmergencyTaskDefaultState(state) ==
    [steps |-> <<>>, current_step |-> 0, state |-> submitted]

\* lines 53-63: a task without steps, cursor 0, in the state passed
EmergencyTask(state) == [steps |-> <<>>, current_step |-> 0, state |-> state]

\* add_step: append one submitted step, step_id from task id and ordinal
add_step(t, task_id, agent_name, agent_address) ==
    [t EXCEPT !.steps = Append(@,
        [step_id |-> <<task_id, Len(t.steps)>>,
         agent_name |-> agent_name,
         agent_address |-> agent_address,
         status |-> submitted,
         response_received |-> None,
         error |-> None])]

\* variant: the cursor stays where it is
advance_step_stay(t) == t

\* lines 88-91: self.current_step += 1
advance_step(t) == [t EXCEPT !.current_step = @ + 1]

(* ------------------------ collaborators' answers ----------------------- *)
\* what the validation call can come back with
ValidationAnswers == {"is_emergency_true", "is_emergency_false",
                      "is_emergency_null", "empty", "unparseable", "raises"}

\* what the matching call can come back with.  The call raises; the
\* content is empty; the content is not JSON; it is JSON but no object; it
\* is an object whose "agents" is null; it is an object whose "agents" is
\* itself an object (names: its keys in order); or it is the object asked
\* for, "agents" being the list names (a missing "agents" reads as [])
MatchNames == {CardName(a) : a \in Addresses} \cup {"Unknown"}
MatchAnswersUpTo(n) ==
    {[kind |-> k, names |-> <<>>] :
        k \in {"raises", "empty", "unparseable", "not_object", "agents_null"}}
    \cup {[kind |-> k, names |-> l] :
            k \in {"json", "agents_object"}, l \in SeqsUpTo(MatchNames, n)}
MatchAnswers == MatchAnswersUpTo(MaxSelected)

\* what a peer call can do: answer, answer with a JSON-RPC error response,
\* or make the call raise (a timeout stands for every exception)
PeerBehaviours == {"success", "error_response", "timeout"}
RaisingBehaviours == {"timeout"}

\* _validate_emergency_request and line 590, `if not is_valid:`.  The call
\* raising, empty content and unparseable content return True (lines 172-
\* 174, 192-195); otherwise is_valid is the answer's "is_emergency", and a
\* null one is as falsy as false
_validate_emergency_request(ans) ==
    ans \notin {"is_emergency_false", "is_emergency_null"}

\* _match_agents_to_emergency, lines 341-447
LastWithName(cat, n) ==
    LET S == {i \in DOMAIN cat : cat[i].name = n}
    IN  IF S = {} THEN 0 ELSE SetMax(S)

\* variant: the matches are collected by walking the catalog
_match_agents_in_catalog_order(ans, cat) ==
    IF cat = <<>> \/ ans.kind \notin {"json", "agents_object"} THEN <<>>
    ELSE SelectSeq(cat, LAMBDA c : \E i \in DOMAIN ans.names :
                                      ans.names[i] = c.name)

\* line 364 keeps, for a name, the last catalog entry with that name.
\* json.loads and result.get raise on the failure kinds, and the except
\* at line 444 returns []; `for agent_name in selected_agent_names` walks
\* a list's items and an object's keys alike
_match_agents_to_emergency(ans, cat) ==
    IF cat = <<>> \/ ans.kind \notin {"json", "agents_object"} THEN <<>>
    ELSE LET known == SelectSeq(ans.names,
                                LAMBDA n : LastWithName(cat, n) # 0)
         IN  [i \in DOMAIN known |-> cat[LastWithName(cat, known[i])]]

\* variant: the exception of a failing call is not caught
_dispatch_to_agent_uncaught(peer) ==
    [raised |-> peer \in RaisingBehaviours,
     response |-> IF peer \in RaisingBehaviours THEN None ELSE Some(peer)]

\* _dispatch_to_agent: the response, or None when the call raised inside;
\* `raised` tells whether an exception leaves _dispatch_to_agent
_dispatch_to_agent(peer) ==
    [raised |-> FALSE,
     response |-> IF peer \in RaisingBehaviours THEN None ELSE Some(peer)]

\* variant: a step that could not be reached is put back to submitted
StepStatusRequeue(response) == IF response # None THEN completed ELSE submitted

\* execute_task line 765, `if response:`; a response object is truthy
StepStatus(response) == IF response # None THEN completed ELSE failed

_extract_response_text(response) == "En route"

\* execute_task lines 794-819: the final summary
RECURSIVE NamesWith(_, _)
NamesWith(steps, status) ==
    IF steps = <<>> THEN <<>>
    ELSE (IF Head(steps).status = status THEN <<Head(steps).agent_name>>
          ELSE <<>>) \o NamesWith(Tail(steps), status)

FinalMessage(steps) ==
    LET successful == NamesWith(steps, completed)
        failedNames == NamesWith(steps, failed)
    IN  IF failedNames = <<>>
        THEN <<"COMPLETE", "Emergency dispatch successful", successful, <<>>>>
        ELSE <<"COMPLETE", "Dispatch completed with issues", successful,
               failedNames>>

\* variant: a failed step fails the task
TaskFinalStateStrict(steps) ==
    IF \E i \in DOMAIN steps : steps[i].status = failed THEN failed
    ELSE completed

\* execute_task line 792
TaskFinalState(steps) == completed

(* -------------------- TaskOrchestratedExecutor.execute ----------------- *)
\* lines 94-110: the initial working status
execute(p) ==
    /\ p \in Flows
    /\ pc[p] = "start"
    /\ enqueue_event(p, <<_send_status_update(working, <<"Emergency operator analyzing call">>,
                        FALSE)>>)
    /\ pc' = [pc EXCEPT ![p] = "phase1"]
    /\ UNCHANGED <<otherVars, calls, validation, now, disconnected, attempts, registry_reply, _class_agent_cache, _class_cache_timestamp, active_tasks, task, addresses, idx,
                   agents, available_agents, stepIdx, dispatchCalls, ncalls, gen,
                   nextGen, snap>>

\* executor lines 112-121 and create_task_plan lines 585-635: read the
\* request (a malformed one raises), validate it, then either cancel or
\* announce the plan and go on to the catalog
create_task_plan(p) ==
    /\ p \in Flows
    /\ pc[p] = "phase1"
    /\ \E input \in {"well_formed", "malformed"} :
         IF input = "malformed"
         THEN /\ pc' = [pc EXCEPT ![p] = "except"]
              /\ UNCHANGED <<task, events, calls, validation>>
         ELSE \E ans \in ValidationAnswers :
              /\ calls' = [calls EXCEPT ![p].validate = @ + 1]
              /\ validation' = [validation EXCEPT ![p] = ans]
              /\ IF ~_validate_emergency_request(ans)
                THEN /\ enqueue_event(p, <<_send_message(<<"CANCELLED">>, FALSE)>>)
                     /\ task' = [task EXCEPT ![p] = Some(EmergencyTask(failed))]
                     /\ pc' = [pc EXCEPT ![p] = "phase2"]
                ELSE /\ enqueue_event(p, <<_send_message(<<"CONFIRMED">>, FALSE),
                                  _send_message(<<"ALERT">>, FALSE),
                                  _send_message(<<"Checking registry">>, FALSE)>>)
                     /\ task' = [task EXCEPT ![p] = Some(EmergencyTask(submitted))]
                     /\ pc' = [pc EXCEPT ![p] = "fetch"]
    /\ UNCHANGED <<otherVars, now, disconnected, attempts, registry_reply, _class_agent_cache, _class_cache_timestamp, active_tasks, addresses, idx, agents,
                   available_agents, stepIdx, dispatchCalls, ncalls, gen, nextGen,
                   snap>>

\* variant: an empty catalog goes on to the matcher like any other
NoAgentsAvailableIgnored(cat) == FALSE

\* create_task_plan line 650, `if not available_agents:`
NoAgentsAvailable(cat) == cat = <<>>

\* create_task_plan lines 643-704: report the catalog, match, add the
\* steps, store the task, announce the plan
PlanFromCatalog(p) ==
    /\ p \in Flows
    /\ pc[p] = "found"
    /\ LET cat == available_agents[p][1]
           found == _send_message(<<"Found", Len(cat)>>, FALSE)
       IN  IF NoAgentsAvailable(cat)
           THEN /\ enqueue_event(p, <<found, _send_message(<<"No services available">>, FALSE)>>)
                /\ UNCHANGED <<task, active_tasks, calls>>
           ELSE \E ans \in MatchAnswers :
                  LET matched == _match_agents_to_emergency(ans, cat)
                      AddAll[i \in 0..Len(matched)] ==
                          IF i = 0 THEN task[p][1]
                          ELSE add_step(AddAll[i - 1], p, matched[i].name,
                                       matched[i].address)
                      t == AddAll[Len(matched)]
                  IN  /\ task' = [task EXCEPT ![p] = Some(t)]
                      /\ calls' = [calls EXCEPT ![p].match = @ + 1]
                      /\ active_tasks' = active_tasks \cup {p}
                      /\ enqueue_event(p, <<found,
                                   IF t.steps # <<>>
                                   THEN _send_message(<<"PLAN",
                                              NamesWith(t.steps, submitted)>>,
                                            FALSE)
                                   ELSE _send_message(<<"No services matched">>, FALSE)>>)
    /\ available_agents' = [available_agents EXCEPT ![p] = None]
    /\ snap' = [snap EXCEPT ![p] = None]
    /\ pc' = [pc EXCEPT ![p] = "phase2"]
    /\ attempts' = [attempts EXCEPT ![p] = <<>>]
    /\ registry_reply' = [registry_reply EXCEPT ![p] = "none"]
    /\ UNCHANGED <<otherVars, validation, now, disconnected, _class_agent_cache, _class_cache_timestamp, addresses, idx, agents, stepIdx,
                   dispatchCalls, ncalls, gen, nextGen>>

(* ----------------------- the caller-facing stream --------------------- *)
\* the caller's stream of flow p disconnects mid-task: a step has been
\* dispatched and execute_task is at the head of the loop (line 744) for
\* the next; nothing in execute_task or the executor reads the signal
ClientDisconnect(p) ==
    /\ p \in Flows
    /\ pc[p] = "contact"
    /\ stepIdx[p] > 1
    /\ ~disconnected[p]
    /\ disconnected' = [disconnected EXCEPT ![p] = TRUE]
    /\ UNCHANGED <<otherVars, calls, validation, now, attempts, registry_reply, _class_agent_cache,
                   _class_cache_timestamp, active_tasks, pc, task, events,
                   addresses, idx, agents, available_agents, stepIdx,
                   dispatchCalls, ncalls, gen, nextGen, snap>>

(* ------------------------------ execute_task --------------------------- *)
\* lines 718-740: a task without steps reports and returns; otherwise the
\* task starts working
execute_task(p) ==
    /\ p \in Flows
    /\ pc[p] = "phase2"
    /\ IF task[p][1].steps = <<>>
       THEN /\ enqueue_event(p, <<_send_message(<<"COMPLETE", "No emergency services required">>,
                             FALSE)>>)
            /\ pc' = [pc EXCEPT ![p] = "phase2_done"]
            /\ UNCHANGED <<task, stepIdx>>
       ELSE /\ task' = [task EXCEPT ![p][1].state = working]
            /\ enqueue_event(p, <<_send_message(<<"DISPATCH",
                               NamesWith(task[p][1].steps, submitted)>>,
                             FALSE)>>)
            /\ stepIdx' = [stepIdx EXCEPT ![p] = 1]
            /\ pc' = [pc EXCEPT ![p] = "contact"]
    /\ validation' = [validation EXCEPT ![p] = "none"]
    /\ UNCHANGED <<otherVars, calls, now, disconnected, attempts, registry_reply, _class_agent_cache, _class_cache_timestamp, active_tasks, addresses, idx, agents,
                   available_agents, dispatchCalls, ncalls, gen, nextGen, snap>>

\* lines 744-754: the step starts working and is announced
StepContact(p) ==
    /\ p \in Flows
    /\ pc[p] = "contact"
    /\ task' = [task EXCEPT ![p][1].steps[stepIdx[p]].status = working]
    /\ enqueue_event(p, <<_send_message(<<"Contacting", stepIdx[p]>>, FALSE)>>)
    /\ pc' = [pc EXCEPT ![p] = "dispatch"]
    /\ UNCHANGED <<otherVars, calls, validation, now, disconnected, attempts, registry_reply, _class_agent_cache, _class_cache_timestamp, active_tasks, addresses, idx, agents,
                   available_agents, stepIdx, dispatchCalls, ncalls, gen, nextGen,
                   snap>>

\* lines 756-789: the peer call returns; record the outcome on the step,
\* report it and advance
StepDispatch(p) ==
    /\ p \in Flows
    /\ pc[p] = "dispatch"
    /\ \E peer \in PeerBehaviours :
        LET i == stepIdx[p]
            t == task[p][1]
            r == _dispatch_to_agent(peer)
            status == StepStatus(r.response)
        IN  /\ dispatchCalls' = [dispatchCalls EXCEPT ![p] = Append(@,
                   [step |-> i, address |-> t.steps[i].agent_address,
                    peer |-> peer, disconnected |-> disconnected[p]])]
            /\ IF r.raised
               THEN /\ pc' = [pc EXCEPT ![p] = "except"]
                    /\ UNCHANGED <<task, events, stepIdx>>
               ELSE /\ task' = [task EXCEPT ![p] = Some(advance_step(
                         [t EXCEPT !.steps[i] =
                            IF status = completed
                            THEN [@ EXCEPT !.status = status,
                                    !.response_received =
                                        Some(_extract_response_text(r.response))]
                            ELSE [@ EXCEPT !.status = status,
                                    !.error = Some("Failed to contact agent")]]))]
                    /\ enqueue_event(p, <<_send_message(<<IF status = completed THEN "confirmed"
                                       ELSE "Failed to reach", i>>, FALSE)>>)
                    /\ stepIdx' = [stepIdx EXCEPT ![p] = i + 1]
                    /\ pc' = [pc EXCEPT ![p] =
                                 IF i = Len(t.steps) THEN "summary"
                                 ELSE "contact"]
    /\ UNCHANGED <<otherVars, calls, validation, now, disconnected, attempts, registry_reply, _class_agent_cache, _class_cache_timestamp, active_tasks, addresses, idx, agents,
                   available_agents, ncalls, gen, nextGen, snap>>

\* lines 791-838: the task completes, the summary is the final progress
\* event, the task leaves the active-task map
FinishTask(p) ==
    /\ p \in Flows
    /\ pc[p] = "summary"
    /\ task' = [task EXCEPT ![p][1].state = TaskFinalState(task[p][1].steps)]
    /\ enqueue_event(p, <<_send_message(FinalMessage(task[p][1].steps), TRUE)>>)
    /\ active_tasks' = active_tasks \ {p}
    /\ pc' = [pc EXCEPT ![p] = "phase2_done"]
    /\ UNCHANGED <<otherVars, calls, validation, now, disconnected, attempts, registry_reply, _class_agent_cache, _class_cache_timestamp, addresses, idx, agents, available_agents,
                   stepIdx, dispatchCalls, ncalls, gen, nextGen, snap>>

\* executor lines 136-148: the final completed status
ExecuteComplete(p) ==
    /\ p \in Flows
    /\ pc[p] = "phase2_done"
    /\ enqueue_event(p, <<_send_status_update(completed,
                        <<"COMPLETE", "Emergency dispatch workflow finished">>,
                        TRUE)>>)
    /\ pc' = [pc EXCEPT ![p] = "done"]
    /\ UNCHANGED <<otherVars, calls, validation, now, disconnected, attempts, registry_reply, _class_agent_cache, _class_cache_timestamp, active_tasks, task, addresses, idx,
                   agents, available_agents, stepIdx, dispatchCalls, ncalls, gen,
                   nextGen, snap>>

\* executor lines 150-164: an exception is reported as failed and re-raised
ExecuteExcept(p) ==
    /\ p \in Flows
    /\ pc[p] = "except"
    /\ enqueue_event(p, <<_send_status_update(failed, <<"Emergency dispatch failed">>, TRUE)>>)
    /\ pc' = [pc EXCEPT ![p] = "raised"]
    /\ UNCHANGED <<otherVars, calls, validation, now, disconnected, attempts, registry_reply, _class_agent_cache, _class_cache_timestamp, active_tasks, task, addresses, idx,
                   agents, available_agents, stepIdx, dispatchCalls, ncalls, gen,
                   nextGen, snap>>

(* --------------------------- the specification ------------------------- *)
Next ==
    \/ Tick
    \/ \E p \in Procs :
        \/ startup_event(p)
        \/ _fetch_available_agents(p)
        \/ load_peer_addresses_from_registry(p)
        \/ get_agent_card(p)
        \/ StoreCache(p)
        \/ execute(p)
        \/ create_task_plan(p)
        \/ PlanFromCatalog(p)
        \/ execute_task(p)
        \/ ClientDisconnect(p)
        \/ StepContact(p)
        \/ StepDispatch(p)
        \/ FinishTask(p)
        \/ ExecuteComplete(p)
        \/ ExecuteExcept(p)

Spec == Init /\ [][Next]_vars

(* ------------------- the matcher as a function of its inputs ----------- *)
\* every catalog: cards at distinct addresses, in any insertion order
Catalogs ==
    {[i \in DOMAIN l |-> [address |-> l[i], name |-> CardName(l[i]), gen |-> 0]] :
        l \in {m \in SeqsUpTo(Addresses, NumAddresses) :
                 \A i, j \in DOMAIN m : m[i] = m[j] => i = j}}

MatchInit ==
    /\ InitOrchestrator
    /\ mCatalog \in Catalogs /\ NoMatchCall
    /\ clientAddresses = <<>> /\ normalForm = <<>> /\ EmptyRegistry
    /\ chatRequest = None /\ NoChat
    /\ NoTaskOps
    /\ agent_addresses = <<>> /\ NoClientCalls
    /\ NoInvocations

\* one call of _match_agents_to_emergency with the same description and
\* the same catalog as every other call of the run
MatchCall ==
    /\ \E ans \in MatchAnswersUpTo(MaxAnswerLen) :
         /\ mAnswer' = Some(ans)
         /\ mResult' = _match_agents_to_emergency(ans, mCatalog)
    /\ UNCHANGED <<notMatch, mCatalog>>

MatchNext == MatchCall

SpecMatch == MatchInit /\ [][MatchNext]_vars

(* ------------------------------ a2a_registry --------------------------- *)
\* address strings are lists of characters
Chars == {"a", "/", " "}
RawAddresses == SeqsUpTo(Chars, MaxAddrLen)
\* the agent cards a client may register
Cards == {"card1", "card2"}

\* str.strip() and str.rstrip(chars)
RECURSIVE lstrip(_)
lstrip(str) ==
    IF str # <<>> /\ Head(str) = " " THEN lstrip(Tail(str)) ELSE str

RECURSIVE rstrip(_, _)
rstrip(str, ch) ==
    IF str # <<>> /\ str[Len(str)] = ch
    THEN rstrip(SubSeq(str, 1, Len(str) - 1), ch)
    ELSE str

strip(str) == rstrip(lstrip(str), " ")

\* variant: trailing slashes are kept
_normalize_address_strip_only(address) == strip(address)

\* store.py lines 115-126: address.strip().rstrip("/")
_normalize_address(address) == rstrip(strip(address), "/")

\* store.py lines 27-52: self._agents[normalized_address] = entry
register(ags, address, agent_card) ==
    LET normalized_address == _normalize_address(address)
    IN  DictSet(ags, normalized_address,
                [address |-> normalized_address, agent_card |-> agent_card])

\* store.py lines 54-77: del self._agents[normalized_address] if present
unregister(ags, address) ==
    LET normalized_address == _normalize_address(address)
    IN  IF \E i \in DOMAIN ags : ags[i].address = normalized_address
        THEN [success |-> TRUE,
              agents |-> SelectSeq(ags, LAMBDA e : e.address # normalized_address)]
        ELSE [success |-> FALSE, agents |-> ags]

\* store.py lines 79-86: list(self._agents.values())
get_all(ags) == ags

\* the claim's rule, stated without the store's code: k is the normalized
\* form of raw when raw is blanks, then k, then slashes, then blanks, the
\* part between the blanks neither beginning nor ending with a blank and k
\* not ending with a slash
IsNormalOf(k, raw) ==
    \E i \in 1..Len(raw) + 1 : \E j \in i - 1..Len(raw) : \E m \in i - 1..j :
       /\ \A x \in 1..i - 1 : raw[x] = " "
       /\ \A x \in j + 1..Len(raw) : raw[x] = " "
       /\ j >= i => (raw[i] # " " /\ raw[j] # " ")
       /\ \A x \in m + 1..j : raw[x] = "/"
       /\ m >= i => raw[m] # "/"
       /\ k = SubSeq(raw, i, m)

NormalOf(raw) ==
    CHOOSE k \in {SubSeq(raw, i, m) : i \in 1..Len(raw) + 1, m \in 0..Len(raw)} :
        IsNormalOf(k, raw)

\* the directory after a card was registered at, or removed from, a key
Registered(dir, k, card) ==
    {e \in dir : e.address # k} \cup {[address |-> k, agent_card |-> card]}
Removed(dir, k) == {e \in dir : e.address # k}

RegistryInit ==
    /\ InitOrchestrator
    /\ mCatalog = <<>> /\ NoMatchCall
    /\ clientAddresses \in RawAddresses \X RawAddresses
    /\ normalForm = [i \in DOMAIN clientAddresses |-> NormalOf(clientAddresses[i])]
    /\ EmptyRegistry
    /\ chatRequest = None /\ NoChat
    /\ NoTaskOps
    /\ agent_addresses = <<>> /\ NoClientCalls
    /\ NoInvocations

\* app.py lines 55-84: POST /register
register_agent ==
    \E i \in DOMAIN clientAddresses : \E agent_card \in Cards :
       LET address == clientAddresses[i]
           ags == register(_agents, address, agent_card)
       IN  /\ _agents' = ags
           /\ regRequest' = [op |-> "register", address |-> address]
           /\ regResponse' = [op |-> "register", status |-> 201,
                           body |-> _normalize_address(address)]
           /\ directory' = Registered(directory, normalForm[i], agent_card)
           /\ UNCHANGED <<notRegistry, clientAddresses,
                          normalForm>>

\* app.py lines 87-111: DELETE /unregister/{address}
unregister_agent ==
    \E i \in DOMAIN clientAddresses :
       LET address == clientAddresses[i]
           r == unregister(_agents, address)
       IN  /\ _agents' = r.agents
           /\ regRequest' = [op |-> "unregister", address |-> address]
           /\ regResponse' = [op |-> "unregister",
                           status |-> IF r.success THEN 200 ELSE 404,
                           body |-> address]
           /\ directory' = Removed(directory, normalForm[i])
           /\ UNCHANGED <<notRegistry, clientAddresses,
                          normalForm>>

\* app.py lines 114-124: GET /agents
list_agents ==
    /\ regRequest' = [op |-> "list", address |-> <<>>]
    /\ regResponse' = [op |-> "list", status |-> 200, body |-> get_all(_agents)]
    /\ UNCHANGED <<notRegistry, clientAddresses, _agents,
                   directory, normalForm>>

RegistryNext == register_agent \/ unregister_agent \/ list_agents

SpecRegistry == RegistryInit /\ [][RegistryNext]_vars

(* ---------------------- webapp_backend: POST /api/chat ----------------- *)
\* Accept headers, as the media types they list
AcceptHeaders == {<<>>, <<"application/json">>, <<"text/event-stream">>,
                  <<"application/json", "text/event-stream">>}
AgentNames == {"alpha", "beta"}
Texts == {"Echo: Hello", ""}

\* what send_message_streaming yields: a SendStreamingMessageSuccessResponse
\* (fields id, jsonrpc, result) whose result is a Message with one text
\* part or a Task, or a JSONRPCErrorResponse (fields id, jsonrpc, error)
Envelopes ==
    {[kind |-> "success", id |-> "id1", jsonrpc |-> "2.0",
      result |-> [kind |-> "message", message_id |-> "m1", parts |-> <<t>>]] :
        t \in Texts}
    \cup {[kind |-> "success", id |-> "id1", jsonrpc |-> "2.0",
           result |-> [kind |-> "task", id |-> "t1"]]}
    \cup {[kind |-> "error", id |-> "id1", jsonrpc |-> "2.0",
           error |-> [code |-> "-32603", message |-> "Internal error"]]}

\* getattr(obj, name, default) on an object with the fields of obj
getattr(obj, name, default) == IF name \in DOMAIN obj THEN obj[name] ELSE default

Frame(event, id, text) == [event |-> event, id |-> id, text |-> text]

\* routes.py lines 334-346
_chat_accept_error_frames ==
    <<Frame("error", "", <<"Endpoint requires Accept: text/event-stream">>),
      Frame("done", "", <<>>)>>
_chat_agent_not_found_frames(agent_name) ==
    <<Frame("error", "", <<"Unknown agent", agent_name>>), Frame("done", "", <<>>)>>

\* routes.py lines 348-397
_format_message_start(mid) == Frame("message-start", mid, <<>>)
_format_message_delta(mid, chunk) == Frame("message-delta", mid, <<chunk>>)
_format_message_complete(mid, accumulated) ==
    Frame("message-complete", mid, accumulated)
_format_error(err_msg) == Frame("error", "", <<err_msg>>)
_format_done == Frame("done", "", <<>>)

\* variant: every name passes
_validate_agent_exists_any(agent_name, listed) == TRUE

\* routes.py lines 414-415
_validate_agent_exists(agent_name, listed) == agent_name \in listed

\* "text/event-stream" in request.headers.get("accept", "")
AcceptsEventStream(accept) == \E i \in DOMAIN accept : accept[i] = "text/event-stream"

\* routes.py lines 426-450.  `result` is the object the caller passes; the
\* message id and the parts are read from it with getattr and a default
_handle_success_parts(result, state) ==
    LET mid == IF state.message_id = None
               THEN Some(getattr(result, "message_id", "msg"))
               ELSE state.message_id
        start == IF ~state.started THEN <<_format_message_start(mid[1])>> ELSE <<>>
        texts == SelectSeq(getattr(result, "parts", <<>>), LAMBDA t : t # "")
    IN  [state |-> [started |-> TRUE, message_id |-> mid,
                    accumulated |-> state.accumulated \o texts],
         frames |-> start \o [i \in DOMAIN texts |->
                                 _format_message_delta(mid[1], texts[i])]]

ChatInit ==
    /\ InitOrchestrator
    /\ mCatalog = <<>> /\ NoMatchCall
    /\ clientAddresses = <<>> /\ normalForm = <<>> /\ EmptyRegistry
    /\ chatRequest \in {Some([accept |-> h, agent_name |-> n]) :
                           h \in AcceptHeaders, n \in AgentNames}
    /\ NoChat
    /\ NoTaskOps
    /\ agent_addresses = <<>> /\ NoClientCalls
    /\ NoInvocations

\* data_stream_chat lines 567-571: the Accept check
data_stream_chat ==
    /\ chatPc = "request"
    /\ IF ~AcceptsEventStream(chatRequest[1].accept)
       THEN /\ chatFrames' = _chat_accept_error_frames
            /\ chatPc' = "closed"
       ELSE /\ chatPc' = "list"
            /\ UNCHANGED chatFrames
    /\ UNCHANGED <<notChat, chatRequest, chatListed,
                   chatState, chatSent, chatStreamed, chatDisconnected>>

\* data_stream_chat lines 572-595: list_agents has answered; an unknown
\* agent gets the not-found frames, a known one the reply stream, whose
\* first step calls send_message_streaming
ValidateAgent ==
    /\ chatPc = "list"
    /\ \E listed \in SUBSET AgentNames :
         /\ chatListed' = Some(listed)
         /\ IF ~_validate_agent_exists(chatRequest[1].agent_name, listed)
            THEN /\ chatFrames' = _chat_agent_not_found_frames(chatRequest[1].agent_name)
                 /\ chatPc' = "closed"
                 /\ UNCHANGED chatSent
            ELSE /\ chatSent' = Append(chatSent, chatRequest[1].agent_name)
                 /\ chatPc' = "stream"
                 /\ UNCHANGED chatFrames
    /\ UNCHANGED <<notChat, chatRequest, chatState,
                   chatStreamed, chatDisconnected>>

\* _stream_agent_reply lines 497-538: one envelope of the agent's stream
StreamEnvelope ==
    /\ chatPc = "stream"
    /\ Len(chatStreamed) < MaxEnvelopes
    /\ \E envelope \in Envelopes, is_disconnected \in BOOLEAN :
         LET root == envelope
             r == _handle_success_parts(root, chatState)
         IN  /\ chatStreamed' = Append(chatStreamed, envelope)
             /\ chatDisconnected' = is_disconnected
             /\ IF is_disconnected
                THEN /\ chatPc' = "finish"
                     /\ UNCHANGED <<chatFrames, chatState>>
                ELSE IF root.kind = "error"
                THEN /\ chatFrames' = Append(chatFrames,
                            _format_error(getattr(root, "message", "stream error")))
                     /\ chatPc' = "finish"
                     /\ UNCHANGED chatState
                ELSE /\ chatState' = r.state
                     /\ chatFrames' = chatFrames \o r.frames
                     /\ UNCHANGED chatPc
    /\ UNCHANGED <<notChat, chatRequest, chatListed,
                   chatSent>>

\* the agent's stream is exhausted
StreamEnds ==
    /\ chatPc = "stream"
    /\ chatPc' = "finish"
    /\ UNCHANGED <<notChat, chatRequest, chatListed,
                   chatState, chatFrames, chatSent, chatStreamed,
                   chatDisconnected>>

\* lines 539-545: the coroutine is cancelled while waiting; it re-raises
StreamCancelled ==
    /\ chatPc = "stream"
    /\ chatPc' = "cancelled"
    /\ UNCHANGED <<notChat, chatRequest, chatListed,
                   chatState, chatFrames, chatSent, chatStreamed,
                   chatDisconnected>>

\* lines 546-553: message-complete for a started message, then done
StreamFinish ==
    /\ chatPc = "finish"
    /\ chatFrames' = chatFrames
          \o (IF chatState.started /\ chatState.message_id # None
              THEN <<_format_message_complete(chatState.message_id[1],
                                              chatState.accumulated)>>
              ELSE <<>>)
          \o <<_format_done>>
    /\ chatPc' = "closed"
    /\ UNCHANGED <<notChat, chatRequest, chatListed,
                   chatState, chatSent, chatStreamed, chatDisconnected>>

ChatNext ==
    \/ data_stream_chat
    \/ ValidateAgent
    \/ StreamEnvelope
    \/ StreamEnds
    \/ StreamCancelled
    \/ StreamFinish

SpecChat == ChatInit /\ [][ChatNext]_vars

(* ----------------------- EmergencyTask on its own ---------------------- *)
\* lines 82-86
get_current_step(t) ==
    IF 0 <= t.current_step /\ t.current_step < Len(t.steps)
    THEN Some(t.steps[t.current_step + 1])
    ELSE None

\* lines 90-91: what advance_step returns, read after the increment
advance_step_result(t) == advance_step(t).current_step < Len(t.steps)

\* lines 93-95
is_complete(t) == t.current_step >= Len(t.steps)

\* lines 97-99
get_progress(t) == <<t.current_step, Len(t.steps)>>

TaskInit ==
    /\ InitOrchestrator
    /\ mCatalog = <<>> /\ NoMatchCall
    /\ clientAddresses = <<>> /\ normalForm = <<>> /\ EmptyRegistry
    /\ chatRequest = None /\ NoChat
    /\ NoTaskOps
    /\ agent_addresses = <<>> /\ NoClientCalls
    /\ NoInvocations

\* a caller of the task calls one of its methods, in any order
call_add_step ==
    /\ Len(et.steps) < MaxSteps
    /\ \E a \in Addresses : et' = add_step(et, 1, CardName(a), a)
    /\ etOp' = "add_step"
    /\ etRet' = None
    /\ UNCHANGED notTask

call_advance_step ==
    /\ et.current_step < MaxAdvances
    /\ et' = advance_step(et)
    /\ etOp' = "advance_step"
    /\ etRet' = Some(advance_step_result(et))
    /\ UNCHANGED notTask

call_get_current_step ==
    /\ etOp' = "get_current_step"
    /\ etRet' = get_current_step(et)
    /\ UNCHANGED <<notTask, et>>

call_is_complete ==
    /\ etOp' = "is_complete"
    /\ etRet' = Some(is_complete(et))
    /\ UNCHANGED <<notTask, et>>

call_get_progress ==
    /\ etOp' = "get_progress"
    /\ etRet' = get_progress(et)
    /\ UNCHANGED <<notTask, et>>

TaskNext ==
    \/ call_add_step
    \/ call_advance_step
    \/ call_get_current_step
    \/ call_is_complete
    \/ call_get_progress

SpecTask == TaskInit /\ [][TaskNext]_vars

(* ----------------------- shared/registry_client.py -------------------- *)
\* a base URL is its scheme and authority, written as one token, followed
\* by the characters of its path; the path is empty or begins with a slash
Origins == {"http://h:1", "http://h:2"}
PathChars == {"/", "p"}
BaseAddresses ==
    {<<o>> \o path : o \in Origins,
                     path \in {q \in SeqsUpTo(PathChars, MaxPathLen) :
                                  q = <<>> \/ Head(q) = "/"}}

\* httpx.URL(agent_address).raw_path: the path (and query) of the URL
\* without scheme and authority; the empty path of an absolute URL is "/"
raw_path(url) == IF Tail(url) = <<>> THEN <<"/">> ELSE Tail(url)

\* registry_client.py lines 77-78: the path of the DELETE request
unregister_endpoint(address) == <<"/unregister/">> \o raw_path(address)

\* app.py line 87, "/unregister/{address:path}": the path parameter is
\* all that follows the prefix
path_parameter(endpoint) == Tail(endpoint)

ClientInit ==
    /\ InitOrchestrator
    /\ mCatalog = <<>> /\ NoMatchCall
    /\ clientAddresses = <<>> /\ normalForm = <<>> /\ EmptyRegistry
    /\ chatRequest = None /\ NoChat
    /\ NoTaskOps
    /\ agent_addresses \in [Clients -> BaseAddresses] /\ NoClientCalls
    /\ NoInvocations

\* registry_client.py lines 32-58 with app.py lines 55-84: POST /register
\* with the address in the JSON body; 201 makes the helper return True
register_with_registry(c) ==
    LET address == agent_addresses[c]
    IN  \E agent_card \in Cards :
          /\ _agents' = register(_agents, address, agent_card)
          /\ regRequest' = [op |-> "register", address |-> address]
          /\ regResponse' = [op |-> "register", status |-> 201,
                             body |-> _normalize_address(address)]
          /\ clientCalled' = [clientCalled EXCEPT ![c] = "register"]
          /\ clientReturned' = [clientReturned EXCEPT ![c] = Some(TRUE)]
          /\ UNCHANGED <<notClient, agent_addresses, clientAddresses, directory,
                         normalForm>>

\* registry_client.py lines 75-95 with app.py lines 87-111: DELETE
\* /unregister/<raw_path>; a 404 makes raise_for_status raise and the
\* helper return False
unregister_from_registry(c) ==
    LET address == path_parameter(unregister_endpoint(agent_addresses[c]))
        r == unregister(_agents, address)
    IN  /\ _agents' = r.agents
        /\ regRequest' = [op |-> "unregister", address |-> address]
        /\ regResponse' = [op |-> "unregister",
                           status |-> IF r.success THEN 200 ELSE 404,
                           body |-> address]
        /\ clientCalled' = [clientCalled EXCEPT ![c] = "unregister"]
        /\ clientReturned' = [clientReturned EXCEPT ![c] = Some(r.success)]
        /\ UNCHANGED <<notClient, agent_addresses, clientAddresses, directory,
                       normalForm>>

\* registry_client.py lines 110-127 with app.py lines 114-124: GET /agents
fetch_agents_from_registry(c) ==
    /\ regRequest' = [op |-> "list", address |-> <<>>]
    /\ regResponse' = [op |-> "list", status |-> 200, body |-> get_all(_agents)]
    /\ clientCalled' = [clientCalled EXCEPT ![c] = "fetch"]
    /\ clientReturned' = [clientReturned EXCEPT ![c] = Some(get_all(_agents))]
    /\ UNCHANGED <<notClient, agent_addresses, clientAddresses, _agents,
                   directory, normalForm>>

ClientNext ==
    \E c \in Clients :
        \/ register_with_registry(c)
        \/ unregister_from_registry(c)
        \/ fetch_agents_from_registry(c)

SpecClient == ClientInit /\ [][ClientNext]_vars

(* ------------- OperatorAgentExecutor and EmergencyOperatorAgent -------- *)
\* Each request runs OperatorAgentExecutor.execute as its own asyncio task
\* on the one executor, hence on the one agent instance.  An action is the
\* code between two awaits.  The executor passes no message_callback, so
\* _message_callback stays None and is left out.
InvokeInit ==
    /\ InitOrchestrator
    /\ mCatalog = <<>> /\ NoMatchCall
    /\ clientAddresses = <<>> /\ normalForm = <<>> /\ EmptyRegistry
    /\ chatRequest = None /\ NoChat
    /\ NoTaskOps
    /\ agent_addresses = <<>> /\ NoClientCalls
    /\ NoInvocations

\* a status update on the queue of request `to`, produced by the run of
\* request `from`
StatusUpdate(from, to, message) ==
    eventQueues' = [eventQueues EXCEPT ![to] =
                       Append(@, [from |-> from, message |-> message])]

\* executor.py lines 113-119: the initial working status
OperatorExecute(r) ==
    /\ invokePc[r] = "start"
    /\ StatusUpdate(r, r, "processing")
    /\ invokePc' = [invokePc EXCEPT ![r] = "invoke"]
    /\ UNCHANGED <<notInvoke, _status_callback, toolUpdates, droppedUpdates>>

\* agent.py lines 293-305: install the request's callback on the agent,
\* then report through the parameter status_callback
invoke(r) ==
    /\ invokePc[r] = "invoke"
    /\ _status_callback' = Some(r)
    /\ StatusUpdate(r, r, "Assessing")
    /\ invokePc' = [invokePc EXCEPT ![r] = "run"]
    /\ UNCHANGED <<notInvoke, toolUpdates, droppedUpdates>>

\* agent.py lines 107-111, 177-178, 248-251: a tool of the run of request
\* r reports through whatever self._status_callback holds at that moment
ToolStatus(r) ==
    /\ invokePc[r] = "run"
    /\ toolUpdates[r] < MaxToolUpdates
    /\ toolUpdates' = [toolUpdates EXCEPT ![r] = @ + 1]
    /\ IF _status_callback # None
       THEN /\ StatusUpdate(r, _status_callback[1], "tool")
            /\ UNCHANGED droppedUpdates
       ELSE /\ droppedUpdates' = Append(droppedUpdates, r)
            /\ UNCHANGED eventQueues
    /\ UNCHANGED <<notInvoke, _status_callback, invokePc>>

\* agent.py lines 315-329: Runner.run returns, the callbacks are cleared
InvokeReturn(r) ==
    /\ invokePc[r] = "run"
    /\ _status_callback' = None
    /\ invokePc' = [invokePc EXCEPT ![r] = "returned"]
    /\ UNCHANGED <<notInvoke, toolUpdates, eventQueues, droppedUpdates>>

\* executor.py lines 141-157: the reply and the final completed status
OperatorComplete(r) ==
    /\ invokePc[r] = "returned"
    /\ StatusUpdate(r, r, "completed")
    /\ invokePc' = [invokePc EXCEPT ![r] = "done"]
    /\ UNCHANGED <<notInvoke, _status_callback, toolUpdates, droppedUpdates>>

InvokeNext ==
    \E r \in Requests :
        \/ OperatorExecute(r)
        \/ invoke(r)
        \/ ToolStatus(r)
        \/ InvokeReturn(r)
        \/ OperatorComplete(r)

SpecInvoke == InvokeInit /\ [][InvokeNext]_vars

TypeOK ==
    /\ now \in 0..MaxTime
    /\ \A p \in Flows : Len(dispatchCalls[p]) <= MaxSelected

(* =============================== claims ================================= *)
T(p) == task[p][1]
Returned(p) == pc[p] \in {"phase2_done", "done"}
FinalEvents(p) == {i \in DOMAIN events[p] : events[p][i].final}
IsSummary(e) ==
    e.src = "orchestrator" /\ e.text[1] = "COMPLETE" /\ Len(e.text) = 4
OneGeneration(cat) == \A i, j \in DOMAIN cat : cat[i].gen = cat[j].gen

(* C1 - cache atomicity.  Under every interleaving of refreshes and       *)
(* readers, the cached catalog is absent or the non-empty, complete       *)
(* result of one fetch; it only ever changes by one store of the whole    *)
(* local result of a process that finished resolving; and every catalog   *)
(* a reader obtains holds peers of a single fetch generation, being       *)
(* either the cached catalog or the reader's own complete result.         *)
C1_CacheState ==
    /\ _class_agent_cache = None \/ (_class_agent_cache[1] # <<>> /\ OneGeneration(_class_agent_cache[1]))
    /\ (_class_agent_cache = None) = (_class_cache_timestamp = None)
    /\ \A p \in Procs : available_agents[p] # None => OneGeneration(available_agents[p][1])

C1_CacheStep ==
    /\ _class_agent_cache' # _class_agent_cache =>
         \E p \in Procs :
            /\ pc[p] = "store"
            /\ idx[p] = Len(addresses[p]) + 1
            /\ \A i \in DOMAIN agents[p] : agents[p][i].gen = gen[p]
            /\ _class_agent_cache' = Some(agents[p])
    /\ \A p \in Procs :
         (available_agents'[p] # available_agents[p] /\ available_agents'[p] # None) =>
            \/ pc[p] = "fetch" /\ _class_agent_cache # None /\ available_agents'[p] = _class_agent_cache
                 /\ _class_agent_cache' = _class_agent_cache
            \/ pc[p] = "store" /\ available_agents'[p] = Some(agents[p])
            \/ pc[p] = "load" /\ available_agents'[p] = Some(<<>>)

C1_CacheAtomic == []C1_CacheState /\ [][C1_CacheStep]_vars

\* a refresh of a later generation is under way while the cache holds the
\* result of an earlier one and a reader has obtained that cached catalog
C1_Witness ==
    /\ _class_agent_cache # None
    /\ \E p \in Procs :
         /\ pc[p] \in {"resolve", "store"}
         /\ agents[p] # <<>>
         /\ agents[p][1].gen # _class_agent_cache[1][1].gen
         /\ \E q \in Procs \ {p} : available_agents[q] = _class_agent_cache

(* C2 - empty-fetch non-caching.  A fresh fetch that resolves zero peers  *)
(* (no address listed, or every resolution failed) returns the empty      *)
(* catalog and leaves the cache and its timestamp as they are; and if     *)
(* they still are what they were when the call began, the cache is not    *)
(* valid, so the next call fetches again.                                 *)
EmptyReturn(p) ==
    \/ pc[p] = "load" /\ pc'[p] = AfterFetch(p)
    \/ pc[p] = "store" /\ agents[p] = <<>>

C2_EmptyStep ==
    \A p \in Procs :
       EmptyReturn(p) /\ pc'[p] # pc[p] =>
          /\ _class_agent_cache' = _class_agent_cache
          /\ _class_cache_timestamp' = _class_cache_timestamp
          /\ available_agents'[p] = Some(<<>>)

C2_Refetch ==
    \A p \in Procs :
       (/\ pc[p] = AfterFetch(p)
        /\ available_agents[p] = Some(<<>>)
        /\ snap[p] = Some(<<_class_agent_cache, _class_cache_timestamp>>)) => ~_is_cache_valid

C2_EmptyNotCached == []C2_Refetch /\ [][C2_EmptyStep]_vars

\* an expired non-empty cache survived a refresh that resolved nothing
C2_Witness ==
    \E p \in Procs :
       /\ pc[p] = AfterFetch(p)
       /\ available_agents[p] = Some(<<>>)
       /\ _class_agent_cache # None
       /\ snap[p] = Some(<<_class_agent_cache, _class_cache_timestamp>>)

(* C3 - step monotonicity.  In every step of a task's execution the       *)
(* cursor does not decrease, no step is removed, and each step's status   *)
(* stays or moves submitted -> working -> completed or failed.            *)
StepTransitionOK(a, b) ==
    \/ a = b
    \/ a = submitted /\ b = working
    \/ a = working /\ b \in {completed, failed}

C3_Step ==
    \A p \in Flows :
       (task[p] # None /\ task'[p] # None) =>
          /\ T(p)'.current_step >= T(p).current_step
          /\ Len(T(p)'.steps) >= Len(T(p).steps)
          /\ \A i \in DOMAIN T(p).steps :
                StepTransitionOK(T(p).steps[i].status, T(p)'.steps[i].status)

C3_StepMonotonic == [][C3_Step]_vars

\* a two-step task ran to its end with one step completed, one failed
C3_Witness ==
    \E p \in Flows :
       /\ pc[p] = "done"
       /\ Len(T(p).steps) = 2
       /\ T(p).current_step = 2
       /\ T(p).steps[1].status = failed
       /\ T(p).steps[2].status = completed

(* C4 - partial-failure completion.  When execute_task has returned for   *)
(* a task with at least one step, the task is completed whatever the      *)
(* steps' outcomes, and the one summary event names exactly the completed *)
(* steps as successful and exactly the failed steps as failed, in the     *)
(* all-succeeded form iff no step failed.                                 *)
NamesOf(steps) == [i \in DOMAIN steps |-> steps[i].agent_name]

C4_PartialFailureCompletes ==
    \A p \in Flows :
       (Returned(p) /\ T(p).steps # <<>>) =>
          /\ T(p).state = completed
          /\ \E i \in DOMAIN events[p] :
               LET e == events[p][i]
                   ok == SelectSeq(T(p).steps, LAMBDA st : st.status = completed)
                   ko == SelectSeq(T(p).steps, LAMBDA st : st.status = failed)
               IN  /\ IsSummary(e)
                   /\ e.final
                   /\ e.text[3] = NamesOf(ok)
                   /\ e.text[4] = NamesOf(ko)
                   /\ Len(ok) + Len(ko) = Len(T(p).steps)
                   /\ (e.text[2] = "Emergency dispatch successful")
                        = (ko = <<>>)
                   /\ \A j \in DOMAIN events[p] :
                        IsSummary(events[p][j]) => j = i

\* a task ended with a failed first step and a completed second step
C4_Witness ==
    \E p \in Flows :
       /\ Returned(p)
       /\ Len(T(p).steps) = 2
       /\ T(p).steps[1].status = failed
       /\ T(p).steps[2].status = completed
       /\ T(p).state = completed

(* C5 - zero-step short-circuit, as claimed.  When create_task_plan       *)
(* matched no peer and execute_task has returned, no peer call was made   *)
(* and the orchestrator emitted exactly one progress event with final     *)
(* set.                                                                   *)
NoPeerMatched(p) ==
    /\ task[p] # None
    /\ T(p).steps = <<>>
    /\ \E i \in DOMAIN events[p] : events[p][i].text[1] = "No services matched"

C5_ZeroStepOneFinal ==
    \A p \in Flows :
       (Returned(p) /\ NoPeerMatched(p)) =>
          /\ dispatchCalls[p] = <<>>
          /\ Cardinality({i \in FinalEvents(p) :
                             events[p][i].src = "orchestrator"}) = 1

(* C6 - failure isolation.  _dispatch_to_agent never raises into          *)
(* execute_task; a peer call that times out (or raises otherwise) leaves  *)
(* its own step failed with an error and no other; the steps are          *)
(* dispatched one by one in plan order, and when execute_task is through  *)
(* every step has been dispatched.                                        *)
C6_FailureIsolated ==
    \A p \in Flows :
       /\ dispatchCalls[p] # <<>> => pc[p] \notin {"except", "raised"}
       /\ \A k \in DOMAIN dispatchCalls[p] :
            LET c == dispatchCalls[p][k]
                st == T(p).steps[c.step]
            IN  /\ c.step = k
                /\ c.address = st.agent_address
                /\ c.peer \in RaisingBehaviours =>
                      st.status = failed /\ st.error # None
                /\ c.peer = "success" =>
                      st.status = completed /\ st.error = None
       /\ (Returned(p) /\ T(p).steps # <<>>) =>
             Len(dispatchCalls[p]) = Len(T(p).steps)

\* the first peer timed out, the second was still called and completed
C6_Witness ==
    \E p \in Flows :
       /\ Returned(p)
       /\ Len(dispatchCalls[p]) = 2
       /\ dispatchCalls[p][1].peer = "timeout"
       /\ dispatchCalls[p][2].peer = "success"
       /\ T(p).steps[1].status = failed
       /\ T(p).steps[2].status = completed

(* C7 - single final event, as claimed.  When the executor's run is over, *)
(* exactly one event with final set was emitted for the task, it carries  *)
(* the aggregated summary, and it is the last event.                      *)
C7_SingleFinalEvent ==
    \A p \in Flows :
       pc[p] = "done" =>
          /\ Cardinality(FinalEvents(p)) = 1
          /\ \A i \in FinalEvents(p) :
                i = Len(events[p]) /\ IsSummary(events[p][i])

(* C8 - a zero-step task is completed, as claimed.  When execute_task has *)
(* returned for a task without steps, the task's state is completed.      *)
C8_ZeroStepCompleted ==
    \A p \in Flows :
       (Returned(p) /\ T(p).steps = <<>>) => T(p).state = completed

(* C9 - active-task map, as claimed.  Once execute_task has returned, the *)
(* task's id is not a key of the active-task map.                         *)
C9_RemovedWhenReturned ==
    \A p \in Flows : Returned(p) => p \notin active_tasks

(* C10 - peer-side errors recorded, as claimed.  A step is completed only *)
(* if its peer call succeeded, and a peer call answered with an error     *)
(* response leaves the step failed with an error reason and listed as     *)
(* failed in the summary.                                                 *)
C10_PeerErrorRecorded ==
    \A p \in Flows :
       \A k \in DOMAIN dispatchCalls[p] :
          LET c == dispatchCalls[p][k]
              st == T(p).steps[c.step]
          IN  /\ st.status = completed => c.peer = "success"
              /\ c.peer = "error_response" =>
                    /\ st.status = failed
                    /\ st.error # None
                    /\ \A i \in DOMAIN events[p] :
                          IsSummary(events[p][i]) =>
                             \E j \in DOMAIN events[p][i].text[4] :
                                events[p][i].text[4][j] = st.agent_name

(* C11 - disconnect, as claimed.  No peer call is issued for a step that  *)
(* begins after the caller's stream has disconnected: the orchestrator    *)
(* sees the disconnect between steps and dispatches no further.           *)
C11_NoDispatchAfterDisconnect ==
    \A p \in Flows :
       \A k \in DOMAIN dispatchCalls[p] : ~dispatchCalls[p][k].disconnected

(* C12 - cache TTL.  A get_catalog call returns the cached catalog, with  *)
(* no registry call and no card call, exactly when a cache exists and its *)
(* age is below 60 seconds; when the cache is absent or its age is 60     *)
(* seconds or more, the call begins a fresh fetch from the registry.      *)
C12_Step ==
    \A p \in Procs :
       (pc[p] = "fetch" /\ pc'[p] # "fetch") =>
          IF /\ _class_agent_cache # None
             /\ now - _class_cache_timestamp[1] < 60
          THEN /\ pc'[p] = AfterFetch(p)
               /\ available_agents'[p] = _class_agent_cache
               /\ registry_reply'[p] = "cached"
               /\ attempts'[p] = <<>>
               /\ nextGen' = nextGen
          ELSE /\ pc'[p] = "load"
               /\ nextGen' = nextGen + 1
               /\ available_agents'[p] = available_agents[p]

C12_CacheTTL == [][C12_Step]_vars

\* a call made when the cache was exactly 60 seconds old went to the
\* registry
C12_Witness ==
    \E p \in Procs :
       /\ pc[p] = "load"
       /\ _class_agent_cache # None
       /\ snap[p] = Some(<<_class_agent_cache, _class_cache_timestamp>>)
       /\ now - _class_cache_timestamp[1] = 60

(* C13 - discovery failures.  A fresh get_catalog call never raises: an   *)
(* unreachable registry gives the empty catalog without any card call,    *)
(* each listed address is tried at most once, and the catalog returned    *)
(* holds exactly the addresses whose card resolution succeeded, in the    *)
(* order tried.                                                           *)
AddressesOf(l) == [i \in DOMAIN l |-> l[i].address]
Resolved(p) == SelectSeq(attempts[p], LAMBDA t : t.ok)

C13_DiscoveryFailsSoft ==
    \A p \in Procs :
       /\ \A i, j \in DOMAIN attempts[p] :
             attempts[p][i].address = attempts[p][j].address => i = j
       /\ pc[p] \in {"except", "raised"} =>
             registry_reply[p] = "none" /\ attempts[p] = <<>>
       /\ registry_reply[p] = "unreachable" =>
             attempts[p] = <<>> /\ available_agents[p] = Some(<<>>)
       /\ (available_agents[p] # None /\ registry_reply[p] # "cached") =>
             /\ pc[p] = AfterFetch(p)
             /\ AddressesOf(available_agents[p][1]) = AddressesOf(Resolved(p))

\* one caller got the empty catalog from an unreachable registry, another
\* a catalog of the one address that resolved out of two tried
C13_Witness ==
    \E p, q \in Procs :
       /\ registry_reply[p] = "unreachable"
       /\ available_agents[p] = Some(<<>>)
       /\ registry_reply[q] = "listed"
       /\ available_agents[q] # None
       /\ AddressesOf(attempts[q]) = <<1, 2>>
       /\ ~attempts[q][1].ok
       /\ AddressesOf(available_agents[q][1]) = <<2>>

(* C15 - failed status.  An exception during plan creation makes the      *)
(* executor emit one failed status with final set, as its last event,     *)
(* and re-raise, with no peer call made and no task stored; and a failed  *)
(* status is emitted in no other run: not when the registry was           *)
(* unreachable or cards failed to resolve, not when matching gave         *)
(* nothing, not when a peer call failed.                                  *)
FailedEvents(p) == {i \in DOMAIN events[p] : events[p][i].state = failed}

C15_FailedOnlyOnException ==
    \A p \in Flows :
       /\ pc[p] = "raised" =>
             /\ FailedEvents(p) = {Len(events[p])}
             /\ events[p][Len(events[p])].final
             /\ events[p][Len(events[p])].src = "executor"
             /\ dispatchCalls[p] = <<>>
             /\ task[p] = None
             /\ p \notin active_tasks
       /\ pc[p] # "raised" => FailedEvents(p) = {}
       /\ (\/ dispatchCalls[p] # <<>>
           \/ registry_reply[p] # "none"
           \/ attempts[p] # <<>>
           \/ task[p] # None) => FailedEvents(p) = {}

\* the request could not be read: the run ended raised after the failed
\* status
C15_Witness ==
    \E p \in Flows :
       /\ pc[p] = "raised"
       /\ events[p][Len(events[p])].state = failed
       /\ events[p][Len(events[p])].final

(* C14 - the matcher fails closed, as claimed.  Whenever the collaborator *)
(* call raised, answered nothing, or answered anything but a JSON object  *)
(* whose "agents" is a list of names, the match is the empty list.        *)
C14_FailsClosed ==
    (mAnswer # None /\ mAnswer[1].kind # "json") => mResult = <<>>

(* C16 - deterministic matching, as claimed.  Every call with the same    *)
(* description and the same catalog returns the ordered list the call     *)
(* before it returned.                                                    *)
C16_Deterministic ==
    [][mAnswer # None => mResult' = mResult]_vars

(* C20 - match result.  For a non-empty catalog and a well-formed answer  *)
(* the match is the answer's name list without the names no catalog peer  *)
(* has, in the answer's order, each name standing for a catalog entry of  *)
(* that name; an unknown name is dropped and nothing else happens.        *)
CatalogNames == {mCatalog[i].name : i \in DOMAIN mCatalog}

C20_MatchResult ==
    (mAnswer # None /\ mAnswer[1].kind = "json" /\ mCatalog # <<>>) =>
       /\ [i \in DOMAIN mResult |-> mResult[i].name]
             = SelectSeq(mAnswer[1].names, LAMBDA n : n \in CatalogNames)
       /\ \A i \in DOMAIN mResult :
             \E j \in DOMAIN mCatalog : mResult[i] = mCatalog[j]

\* the answer names the two catalog peers in the order opposite to the
\* catalog's, with an unknown name between them
C20_Witness ==
    /\ Len(mCatalog) = 2
    /\ mAnswer # None
    /\ mAnswer[1].kind = "json"
    /\ mAnswer[1].names = <<mCatalog[2].name, "Unknown", mCatalog[1].name>>
    /\ mResult = <<mCatalog[2], mCatalog[1]>>

(* C17 - the registry is a directory keyed by normalized address.  After  *)
(* any registers and unregisters, list returns one entry for each         *)
(* normalized address (surrounding blanks stripped, then trailing         *)
(* slashes) registered and not unregistered since, with the card          *)
(* registered last; an unregister answers 404 and changes nothing exactly *)
(* when its normalized address is not present, and otherwise answers 200  *)
(* and removes the entry.                                                 *)
C17_ListIsDirectory ==
    regResponse.op = "list" =>
       /\ \A i, j \in DOMAIN regResponse.body :
             regResponse.body[i].address = regResponse.body[j].address => i = j
       /\ {regResponse.body[i] : i \in DOMAIN regResponse.body} = directory

C17_UnregisterStep ==
    regRequest'.op = "unregister" =>
       LET k == normalForm[CHOOSE i \in DOMAIN clientAddresses :
                              clientAddresses[i] = regRequest'.address]
           present == \E e \in directory : e.address = k
       IN  /\ (regResponse'.status = 404) = ~present
           /\ ~present => (_agents' = _agents /\ directory' = directory)
           /\ present =>
                 /\ regResponse'.status = 200
                 /\ \A i \in DOMAIN _agents' : _agents'[i].address # k
                 /\ Len(_agents') = Len(_agents) - 1

C17_KeyValueDirectory == []C17_ListIsDirectory /\ [][C17_UnregisterStep]_vars

\* two different address strings with the same normalized form were
\* registered with different cards, and list shows the one entry
C17_Witness ==
    /\ clientAddresses = << <<" ", "a", "/">>, <<"a", "/", "/">> >>
    /\ regResponse.op = "list"
    /\ regResponse.body = <<[address |-> <<"a">>, agent_card |-> "card2"]>>

(* C18 - chat success, as claimed.  When the chat request had the         *)
(* event-stream Accept header and named a listed agent, the agent         *)
(* streamed a message with the non-empty text part T, the caller stayed   *)
(* connected and the stream has closed, some message frame of the stream  *)
(* carries T and the last frame is the done frame.                        *)
IsMessageFrame(f) ==
    f.event \in {"message-start", "message-delta", "message-complete"}

C18_MessageThenDone ==
    (chatPc = "closed" /\ ~chatDisconnected) =>
       \A k \in DOMAIN chatStreamed :
          LET e == chatStreamed[k]
          IN  (e.kind = "success" /\ e.result.kind = "message"
                 /\ e.result.parts[1] # "") =>
                 /\ \E i \in DOMAIN chatFrames :
                       /\ IsMessageFrame(chatFrames[i])
                       /\ \E j \in DOMAIN chatFrames[i].text :
                             chatFrames[i].text[j] = e.result.parts[1]
                 /\ chatFrames[Len(chatFrames)].event = "done"

(* C19 - chat preconditions.  When the Accept header lacks                *)
(* text/event-stream, or the named agent is not among the agents listed,  *)
(* the stream is exactly one error frame naming that cause and then one   *)
(* done frame, and no message is sent to any agent.                       *)
C19_PreconditionFrames ==
    /\ (chatRequest # None /\ \A i \in DOMAIN chatRequest[1].accept :
                                  chatRequest[1].accept[i] # "text/event-stream") =>
          /\ chatSent = <<>>
          /\ chatListed = None
          /\ chatPc \in {"request", "closed"}
          /\ chatPc = "closed" =>
                chatFrames = <<Frame("error", "",
                                     <<"Endpoint requires Accept: text/event-stream">>),
                               Frame("done", "", <<>>)>>
    /\ (chatListed # None /\ chatRequest[1].agent_name \notin chatListed[1]) =>
          /\ chatSent = <<>>
          /\ chatPc = "closed"
          /\ chatFrames = <<Frame("error", "",
                                  <<"Unknown agent", chatRequest[1].agent_name>>),
                            Frame("done", "", <<>>)>>

\* a request with the right Accept header for an agent that is not listed
\* was answered with the two frames
C19_Witness ==
    /\ chatPc = "closed"
    /\ chatRequest[1].accept = <<"text/event-stream">>
    /\ chatRequest[1].agent_name = "beta"
    /\ chatListed = Some({"alpha"})
    /\ Len(chatFrames) = 2
    /\ chatFrames[1].event = "error"

(* C21 - the operations of a task, as claimed.  After any sequence of     *)
(* add_step and advance_step calls: add_step appends one submitted step   *)
(* and changes nothing else; only advance_step changes the cursor, by     *)
(* exactly one, and it returns true iff the cursor is below the number of *)
(* steps afterwards; is_complete is true iff the cursor is at or past the *)
(* number of steps; get_current_step returns steps[cursor] when the       *)
(* cursor is in range and none otherwise; get_progress returns            *)
(* (completed, total) with total the number of steps and completed never  *)
(* above total.                                                           *)
C21_Returns ==
    /\ etOp = "advance_step" => etRet = Some(et.current_step < Len(et.steps))
    /\ etOp = "is_complete" => etRet = Some(et.current_step >= Len(et.steps))
    /\ etOp = "get_current_step" =>
          etRet = IF 0 <= et.current_step /\ et.current_step < Len(et.steps)
                  THEN Some(et.steps[et.current_step + 1])
                  ELSE None
    /\ etOp = "get_progress" =>
          /\ etRet[2] = Len(et.steps)
          /\ etRet[1] <= etRet[2]

C21_Step ==
    /\ (etOp' = "add_step" /\ taskVars' # taskVars) =>
          /\ Len(et'.steps) = Len(et.steps) + 1
          /\ SubSeq(et'.steps, 1, Len(et.steps)) = et.steps
          /\ et'.steps[Len(et'.steps)].status = submitted
          /\ et'.current_step = et.current_step
          /\ et'.state = et.state
    /\ et'.current_step # et.current_step =>
          /\ etOp' = "advance_step"
          /\ et'.current_step = et.current_step + 1

C21_TaskOperations == []C21_Returns /\ [][C21_Step]_vars

(* C22 - result and error of a step.  In every reachable state each step  *)
(* has its result text (response_received) set iff its status is          *)
(* completed and its error reason set iff its status is failed: a         *)
(* terminal step has exactly one of the two, any other step neither.      *)
C22_ResultIffCompleted ==
    \A p \in Flows : task[p] # None =>
        \A i \in DOMAIN T(p).steps :
            LET step == T(p).steps[i]
            IN  /\ step.response_received # None <=> step.status = completed
                /\ step.error # None <=> step.status = failed

\* the first step has failed, the second has completed
C22_Witness ==
    \E p \in Flows :
        /\ task[p] # None
        /\ Len(T(p).steps) = 2
        /\ T(p).steps[1].status = failed /\ T(p).steps[1].error # None
        /\ T(p).steps[1].response_received = None
        /\ T(p).steps[2].status = completed
        /\ T(p).steps[2].response_received # None
        /\ T(p).steps[2].error = None

(* C23 - a completed task is finished.  In every reachable state a task   *)
(* whose state is completed has every step completed or failed and its    *)
(* cursor equal to the number of its steps; the task never becomes        *)
(* completed while a step is submitted or working.                        *)
C23_CompletedMeansAllTerminal ==
    \A p \in Flows :
        (task[p] # None /\ T(p).state = completed) =>
            /\ \A i \in DOMAIN T(p).steps :
                   T(p).steps[i].status \in {completed, failed}
            /\ T(p).current_step = Len(T(p).steps)

\* a task has completed with two steps, one of them failed
C23_Witness ==
    \E p \in Flows :
        /\ task[p] # None
        /\ T(p).state = completed
        /\ Len(T(p).steps) = 2
        /\ T(p).current_step = 2
        /\ \E i \in DOMAIN T(p).steps : T(p).steps[i].status = failed

(* C24 - steps run one after the other, in plan order.  At most one step  *)
(* of a task is working at any time; the peer call for a step is made     *)
(* only when every earlier step is terminal and its result event has      *)
(* been emitted; for each step the "Contacting" event comes before the    *)
(* peer call and the peer call before the step's result event; the final  *)
(* summary event comes after every per-step event.                        *)
ContactEvents(p, i) ==
    {n \in DOMAIN events[p] :
        /\ events[p][n].text[1] = "Contacting"
        /\ events[p][n].text[2] = i}
ResultEvents(p, i) ==
    {n \in DOMAIN events[p] :
        /\ events[p][n].text[1] \in {"confirmed", "Failed to reach"}
        /\ events[p][n].text[2] = i}
SummaryEvents(p) == {n \in DOMAIN events[p] : IsSummary(events[p][n])}

C24_Order ==
    \A p \in Flows : task[p] # None =>
        /\ Cardinality({i \in DOMAIN T(p).steps :
                           T(p).steps[i].status = working}) <= 1
        /\ \A i \in DOMAIN T(p).steps :
              \* the events of step i follow those of every earlier step
              /\ \A r \in ResultEvents(p, i) :
                    \E c \in ContactEvents(p, i) : c < r
              /\ \A c \in ContactEvents(p, i) : \A j \in 1..(i - 1) :
                    \E r \in ResultEvents(p, j) : r < c
              /\ \A n \in SummaryEvents(p) :
                    /\ \E c \in ContactEvents(p, i) : c < n
                    /\ \E r \in ResultEvents(p, i) : r < n
                    /\ \A m \in ContactEvents(p, i) \cup ResultEvents(p, i) :
                          m < n

\* the step in which _dispatch_to_agent is called for step i
C24_Step ==
    \A p \in Flows :
        Len(dispatchCalls'[p]) > Len(dispatchCalls[p]) =>
            LET i == dispatchCalls'[p][Len(dispatchCalls'[p])].step
            IN  /\ Len(dispatchCalls'[p]) = i
                /\ T(p).steps[i].status = working
                /\ \A j \in 1..(i - 1) :
                      /\ T(p).steps[j].status \in {completed, failed}
                      /\ ResultEvents(p, j) # {}
                /\ ContactEvents(p, i) # {}
                /\ ResultEvents(p, i) = {}
                /\ SummaryEvents(p) = {}

C24_Sequential == []C24_Order /\ [][C24_Step]_vars

\* both steps of a two-step plan have run and the summary is out
C24_Witness ==
    \E p \in Flows :
        /\ task[p] # None
        /\ Len(T(p).steps) = 2
        /\ Len(dispatchCalls[p]) = 2
        /\ SummaryEvents(p) # {}
        /\ ResultEvents(p, 1) # {} /\ ResultEvents(p, 2) # {}

(* C25 - an empty catalog.  When _fetch_available_agents returns an empty *)
(* catalog, create_task_plan raises nothing, emits the "Found 0" event,   *)
(* returns a task without steps and does not call the matching            *)
(* collaborator; execute_task then calls no peer.                         *)
FoundNone(p) ==
    \E n \in DOMAIN events[p] :
        events[p][n].text[1] = "Found" /\ events[p][n].text[2] = 0

\* the step in which create_task_plan takes the catalog it was returned
C25_Step ==
    \A p \in Flows :
        (pc[p] = "found" /\ pc'[p] # "found"
           /\ available_agents[p] = Some(<<>>)) =>
            /\ pc'[p] = "phase2"
            /\ FoundNone(p)'
            /\ Len(events'[p]) = Len(events[p]) + 2
            /\ T(p)'.steps = <<>>
            /\ calls'[p].match = calls[p].match

C25_After ==
    \A p \in Flows : FoundNone(p) =>
        /\ T(p).steps = <<>>
        /\ calls[p].match = 0
        /\ dispatchCalls[p] = <<>>
        /\ pc[p] \notin {"except", "raised"}

C25_EmptyCatalog == []C25_After /\ [][C25_Step]_vars

\* the request has been handled to the end on an empty catalog
C25_Witness ==
    \E p \in Flows :
        /\ FoundNone(p)
        /\ pc[p] = "done"
        /\ calls[p].catalog = 1
        /\ dispatchCalls[p] = <<>>

(* C26 - registration round trip, as claimed.  When an agent has          *)
(* registered with register_with_registry under base address A, the entry *)
(* is listed, and the agent calls unregister_from_registry with the same  *)
(* A, the call returns True and the registry's list holds no entry for A  *)
(* afterwards.                                                            *)
EntriesFor(ags, A) == {i \in DOMAIN ags : IsNormalOf(ags[i].address, A)}

C26_Step ==
    \A c \in Clients :
        (/\ clientCalled[c] = "register"
         /\ clientReturned[c] = Some(TRUE)
         /\ EntriesFor(get_all(_agents), agent_addresses[c]) # {}
         /\ clientCalled'[c] = "unregister") =>
            /\ clientReturned'[c] = Some(TRUE)
            /\ EntriesFor(get_all(_agents'), agent_addresses[c]) = {}

C26_RoundTrip == [][C26_Step]_vars

(* C27 - no peer twice in one task, as claimed.  Whatever the matching    *)
(* collaborator answers and whatever the catalog, the steps               *)
(* create_task_plan adds have pairwise distinct target addresses and      *)
(* pairwise distinct step ids.                                            *)
C27_DistinctTargets ==
    \A p \in Flows : task[p] # None =>
        \A i, j \in DOMAIN T(p).steps : i # j =>
            /\ T(p).steps[i].agent_address # T(p).steps[j].agent_address
            /\ T(p).steps[i].step_id # T(p).steps[j].step_id

(* C28 - a rejected request.  When validation rejects the request,        *)
(* create_task_plan emits one cancellation event and returns a task       *)
(* without steps in state failed, without fetching the catalog, calling   *)
(* the matcher or storing the task in active_tasks; no peer is ever       *)
(* called for the task and its state never becomes working or completed.  *)
Rejected(p) ==
    \E n \in DOMAIN events[p] : events[p][n].text[1] = "CANCELLED"

\* the step in which the validation call answers "is_emergency": false
C28_Step ==
    \A p \in Flows :
        (pc[p] = "phase1" /\ validation'[p] = "is_emergency_false") =>
            /\ ~Rejected(p) /\ Rejected(p)'
            /\ Len(events'[p]) = Len(events[p]) + 1
            /\ pc'[p] = "phase2"

C28_After ==
    \A p \in Flows : Rejected(p) =>
        /\ task[p] # None
        /\ T(p).steps = <<>>
        /\ T(p).state = failed
        /\ calls[p].catalog = 0
        /\ calls[p].match = 0
        /\ p \notin active_tasks
        /\ dispatchCalls[p] = <<>>
        /\ pc[p] \in {"phase2", "phase2_done", "done"}

C28_Rejection == []C28_After /\ [][C28_Step]_vars

\* a rejected request has been handled to the end
C28_Witness ==
    \E p \in Flows :
        /\ Rejected(p)
        /\ pc[p] = "done"
        /\ calls[p].validate = 1
        /\ T(p).state = failed

(* C29 - validation fails open, as claimed.  Whenever the validation call *)
(* raises, returns empty content or returns unparseable content, the      *)
(* request is treated as a genuine emergency and create_task_plan goes on *)
(* to discovery and matching; only the answer "is_emergency": false keeps *)
(* the request from being dispatched.                                     *)
Proceeds(p) ==
    /\ pc'[p] = "fetch"
    /\ ~Rejected(p)'
    /\ T(p)'.state = submitted

C29_Step ==
    \A p \in Flows : pc[p] = "phase1" =>
        /\ validation'[p] \in {"raises", "empty", "unparseable"} => Proceeds(p)
        /\ validation'[p] \notin {"none", "is_emergency_false"} => Proceeds(p)

C29_FailsOpen == [][C29_Step]_vars

(* C30 - concurrent invocations, as claimed.  Under every interleaving of *)
(* two invoke calls on the one agent instance, each status update a tool  *)
(* call of one invocation produces is delivered through that invocation's *)
(* own callback, to its own request's queue: none reaches the other       *)
(* request and none is dropped.                                           *)
C30_OwnCallback ==
    /\ \A r \in Requests : \A n \in DOMAIN eventQueues[r] :
           eventQueues[r][n].from = r
    /\ droppedUpdates = <<>>

====
